---- MODULE Spec2Model ----
(***************************************************************************)
(* workedon: scan a directory tree for git repositories, reduce each       *)
(* repository's recent log to per-file change counts, and report.          *)
(*                                                                         *)
(* src/main.go holds two revisions of the program.  Their pipelines        *)
(* (lines 50-119 and lines 327-400) are the same text: one discovery       *)
(* goroutine, a pool of workers ranging over the unbuffered channel `in`,  *)
(* a goroutine that waits for the WaitGroup and closes `out`.  They differ *)
(* in the reporter that drains `out`:                                      *)
(*   - lines 122-152 print one row per result as it arrives;               *)
(*   - lines 405-428 collect the results, sort them and print a table.     *)
(* The model runs the one pipeline and records what each reporter writes:  *)
(* `rows` is the standard output of the first, `directories`,              *)
(* `totalChanges` and `table` are the state and output of the second.      *)
(***************************************************************************)
EXTENDS Integers, Sequences, FiniteSets, TLC

\* ------------------------------------------------------------------ bounds

\* Directory entries of the scanned tree (the tree is heap shaped:
\* the children of entry d are 2d and 2d+1).
MaxLen == 4

NumDirs == 5

\* Worker goroutines started by main (the program starts 10).
NumWorkers == 2

\* Commits in a repository history of the log-reduction specification.
MaxCommits == 3

Dirs == 1..NumDirs
Workers == 1..NumWorkers

\* ------------------------------------------------------ the git collaborator

\* object.FileStat values: Name, Addition, Deletion.
StatX1 == [Name |-> "x.txt", Addition |-> 1, Deletion |-> 1]
StatX10 == [Name |-> "x.txt", Addition |-> 10, Deletion |-> 2]
StatY1 == [Name |-> "y.txt", Addition |-> 1, Deletion |-> 1]
StatY2 == [Name |-> "y.txt", Addition |-> 2, Deletion |-> 1]
StatBin == [Name |-> "logo.png", Addition |-> 0, Deletion |-> 0]
StatNoPath == [Name |-> "", Addition |-> 3, Deletion |-> 1]

\* object.Commit values: the author's name, the message (its lines), whether
\* repo.Log with Since = now - since returns the commit, and what
\* commit.Stats() returns: ok = FALSE is an error.
Commit(a, msg, recent, stats) ==
    [Author |-> a, Message |-> msg, InWindow |-> recent, StatsOk |-> TRUE, Stats |-> stats]

BrokenCommit(a) ==
    [Author |-> a, Message |-> <<"broken">>, InWindow |-> TRUE, StatsOk |-> FALSE, Stats |-> <<>>]

\* A repository handle: what worktree.Pull returns ("ok", "uptodate" for
\* git.NoErrAlreadyUpToDate, "err" for any other error), whether repo.Log
\* fails, and the commits of the repository, newest first.
Repo(p, logOk, h) == [pullRes |-> p, logOk |-> logOk, history |-> h]

PullResults == {"ok", "uptodate", "err"}

\* ------------------------------------------------------------ pure functions

\* uniq, lines 525-535: keep the first occurrence of every string.
RECURSIVE uniqLoop(_, _, _)
uniqLoop(ss, keys, acc) ==
    IF ss = <<>> THEN acc
    ELSE IF Head(ss) \in keys
         THEN uniqLoop(Tail(ss), keys, acc)
         ELSE uniqLoop(Tail(ss), keys \cup {Head(ss)}, Append(acc, Head(ss)))

\* The strings in the opposite order.
Rev(ss) == [i \in DOMAIN ss |-> ss[Len(ss) + 1 - i]]

\* The last occurrence of every string kept, not the first.
uniqLast(ss) == Rev(uniqLoop(Rev(ss), {}, <<>>))

uniq(ss) == uniqLoop(ss, {}, <<>>)

\* A parseStat that counts the added lines only.
parseStatAdded(stat) ==
    [file |-> stat.Name, nChanges |-> stat.Addition, fatal |-> FALSE]

\* parseStat, lines 537-551.  count is a fresh map, so count[stat.Name] is
\* set to 1 and the v > 1 branch (log.Fatalf) is never taken.
parseStat(stat) ==
    LET count == [n \in {stat.Name} |-> 1]
    IN  [file |-> stat.Name,
         nChanges |-> stat.Addition + stat.Deletion,
         fatal |-> \E n \in DOMAIN count : count[n] > 1]

\* A pullRepo that returns every error of Pull.
pullRepoStrict(repo) == IF repo.pullRes # "ok" THEN "err" ELSE "nil"

\* pullRepo, lines 499-523: nil unless Pull fails with an error other than
\* git.NoErrAlreadyUpToDate.
pullRepo(repo) == IF repo.pullRes = "err" THEN "err" ELSE "nil"

\* repo.Log(&git.LogOptions{Since: &t}), lines 451-452: the commits of the
\* window.
RECURSIVE Log(_)
Log(h) ==
    IF h = <<>> THEN <<>>
    ELSE IF Head(h).InWindow THEN <<Head(h)>> \o Log(Tail(h)) ELSE Log(Tail(h))

\* A Go map read: the zero value for a missing key.
MapGet(m, k, zero) == IF k \in DOMAIN m THEN m[k] ELSE zero

MapPut(m, k, v) == [x \in DOMAIN m \cup {k} |-> IF x = k THEN v ELSE m[x]]

\* strings.Split(commit.Message, "\n")[0], lines 478-479.
FirstLine(msg) == msg[1]

\* A loop body that adds to changesPerFile without the test of the path.
RECURSIVE StatsLoopNoTest(_, _, _)
StatsLoopNoTest(stats, commit, maps) ==
    IF stats = <<>> THEN maps
    ELSE LET ps == parseStat(Head(stats))
             file == ps.file
         IN  StatsLoopNoTest(Tail(stats), commit,
                 [changesPerFile |-> MapPut(maps.changesPerFile, file,
                                            MapGet(maps.changesPerFile, file, 0) + ps.nChanges),
                  authorsPerFile |-> MapPut(maps.authorsPerFile, file,
                                            Append(MapGet(maps.authorsPerFile, file, <<>>), commit.Author)),
                  msgsPerFile |-> MapPut(maps.msgsPerFile, file,
                                         Append(MapGet(maps.msgsPerFile, file, <<>>), FirstLine(commit.Message))),
                  err |-> maps.err])

\* The body of the loop over a commit's stats, lines 470-480.
RECURSIVE StatsLoop(_, _, _)
StatsLoop(stats, commit, maps) ==
    IF stats = <<>> THEN maps
    ELSE LET ps == parseStat(Head(stats))
             file == ps.file
             changes == IF file # ""
                        THEN MapPut(maps.changesPerFile, file,
                                    MapGet(maps.changesPerFile, file, 0) + ps.nChanges)
                        ELSE maps.changesPerFile
             authors == MapPut(maps.authorsPerFile, file,
                               Append(MapGet(maps.authorsPerFile, file, <<>>), commit.Author))
             msgs == MapPut(maps.msgsPerFile, file,
                            Append(MapGet(maps.msgsPerFile, file, <<>>), FirstLine(commit.Message)))
         IN  StatsLoop(Tail(stats), commit,
                       [changesPerFile |-> changes, authorsPerFile |-> authors,
                        msgsPerFile |-> msgs, err |-> maps.err])

\* An iteration that leaves out the author test.
RECURSIVE ForEachNoFilter(_, _, _)
ForEachNoFilter(commits, author, maps) ==
    IF commits = <<>> THEN maps
    ELSE LET commit == Head(commits)
         IN  IF ~commit.StatsOk
             THEN [maps EXCEPT !.err = TRUE]
             ELSE ForEachNoFilter(Tail(commits), author, StatsLoop(commit.Stats, commit, maps))

\* cIter.ForEach, lines 460-483: an error from commit.Stats() ends the
\* iteration.
RECURSIVE ForEach(_, _, _)
ForEach(commits, author, maps) ==
    IF commits = <<>> THEN maps
    ELSE LET commit == Head(commits)
         IN  IF author # "" /\ commit.Author # author
             THEN ForEach(Tail(commits), author, maps)
             ELSE IF ~commit.StatsOk
                  THEN [maps EXCEPT !.err = TRUE]
                  ELSE ForEach(Tail(commits), author, StatsLoop(commit.Stats, commit, maps))

EmptyMaps ==
    [changesPerFile |-> << >>, authorsPerFile |-> << >>, msgsPerFile |-> << >>, err |-> FALSE]

\* The orders in which `range changesPerFile` can yield the keys of the map
\* (Go leaves the iteration order of a map unspecified).
RangeOrders(keys) ==
    {s \in [1..Cardinality(keys) -> keys] : \A i, j \in DOMAIN s : i # j => s[i] # s[j]}

\* The file records of lines 488-494 (with the messages of lines 212-218),
\* for one iteration order.
FilesOf(maps, order) ==
    [i \in DOMAIN order |->
        [path |-> order[i],
         changes |-> maps.changesPerFile[order[i]],
         authors |-> uniq(maps.authorsPerFile[order[i]]),
         messages |-> uniq(maps.msgsPerFile[order[i]])]]

\* parseRepoLogs, lines 444-497: the set of its possible results
\* [files, err], err one of "nil", "pullError", "error".
parseRepoLogs(repo, pull, author) ==
    IF pull /\ pullRepo(repo) # "nil"
    THEN {[files |-> <<>>, err |-> "pullError"]}
    ELSE IF ~repo.logOk
    THEN {[files |-> <<>>, err |-> "error"]}
    ELSE LET maps == ForEach(Log(repo.history), author, EmptyMaps)
         IN  IF maps.err
             THEN {[files |-> <<>>, err |-> "error"]}
             ELSE {[files |-> FilesOf(maps, order), err |-> "nil"] :
                     order \in RangeOrders(DOMAIN maps.changesPerFile)}

\* A switch that takes every error for fatal.
isFatalAny(err) == err # "nil"

\* The switch of lines 379-385: a *pullError is logged, any other error is
\* fatal.
isFatal(err) == err # "nil" /\ err # "pullError"

\* The worker's accumulation over the files, lines 387-390.
RECURSIVE SumChanges(_)
SumChanges(fs) == IF fs = <<>> THEN 0 ELSE Head(fs).changes + SumChanges(Tail(fs))

RECURSIVE AllAuthors(_)
AllAuthors(fs) == IF fs = <<>> THEN <<>> ELSE Head(fs).authors \o AllAuthors(Tail(fs))

\* The rest of the worker's loop body once parseRepoLogs has returned
\* without a fatal error, lines 387-391.
workerBody(dir, files) ==
    [dir EXCEPT !.changes = dir.changes + SumChanges(files),
                !.authors = dir.authors \o AllAuthors(files),
                !.files = files]

\* byChanges.Less, line 433, and the order sort.Reverse makes of it.
Less(x, i, j) == x[i].changes < x[j].changes

ReverseLess(x, i, j) == Less(x, j, i)

Swap(x, i, j) == [x EXCEPT ![i] = x[j], ![j] = x[i]]

\* sort.Sort, line 420.  On fewer than 12 elements sort.Sort is an insertion
\* sort: element i sinks while it is Less than its predecessor.
RECURSIVE Sink(_, _)
Sink(x, j) == IF j > 1 /\ ReverseLess(x, j, j - 1) THEN Sink(Swap(x, j, j - 1), j - 1) ELSE x

RECURSIVE InsertionSort(_, _)
InsertionSort(x, i) == IF i > Len(x) THEN x ELSE InsertionSort(Sink(x, i), i + 1)

\* The results left in the order they are in.
NoSort(x) == x

SortReverse(x) == InsertionSort(x, 2)

\* "%2.0f" of float64(changes)/float64(totalChanges)*100, line 422: the
\* nearest whole number, a half going to the even one; 0/0 is NaN.
Percent(changes, total) ==
    IF total = 0 THEN "NaN"
    ELSE LET q == (100 * changes) \div total
             r == (100 * changes) % total
         IN  IF 2 * r > total \/ (2 * r = total /\ q % 2 = 1) THEN q + 1 ELSE q

\* One row of the table, lines 422-424.
TableRow(dir, total) ==
    [path |-> dir.path, percent |-> Percent(dir.changes, total),
     changes |-> dir.changes, authors |-> uniq(dir.authors)]

\* The table of lines 420-425.
RenderTable(dirs, total) ==
    LET sorted == SortReverse(dirs)
    IN  [i \in DOMAIN sorted |-> TableRow(sorted[i], total)]

\* A loop body that assigns the total where the program adds to it.
collectOverwrite(dir, total, dirs) ==
    IF Len(dir.files) = 0
    THEN [totalChanges |-> total, directories |-> dirs]
    ELSE [totalChanges |-> dir.changes, directories |-> Append(dirs, dir)]

\* The body of the receive loop of lines 408-414: the new
\* [totalChanges, directories].
collect(dir, total, dirs) ==
    IF Len(dir.files) = 0
    THEN [totalChanges |-> total, directories |-> dirs]
    ELSE [totalChanges |-> total + dir.changes, directories |-> Append(dirs, dir)]

\* The lines reportResults of the first revision writes under a row, lines
\* 141-151: with -files the files sorted by sort.Reverse(byCount) (byCount.Less,
\* line 157, compares the change counts as byChanges.Less does), each with
\* its messages under -msgs.
fileLines(dir, showFiles, showMsgs) ==
    IF ~showFiles THEN <<>>
    ELSE LET sorted == SortReverse(dir.files)
         IN  [i \in DOMAIN sorted |->
                [path |-> sorted[i].path, changes |-> sorted[i].changes,
                 authors |-> sorted[i].authors,
                 messages |-> IF showMsgs THEN sorted[i].messages ELSE <<>>]]

\* reportResults of the first revision, lines 127-152: the row it prints for
\* one result, with the lines under it.
printRow(dir, showFiles, showMsgs) ==
    IF Len(dir.files) = 0 THEN <<>>
    ELSE <<[path |-> dir.path, changes |-> SumChanges(dir.files),
            authors |-> uniq(AllAuthors(dir.files)),
            lines |-> fileLines(dir, showFiles, showMsgs)]>>

\* ------------------------------------------------------- the scanned tree

\* filepath.WalkDir, line 367, visits in pre-order.  After(d): the entry
\* that follows the subtree of d; 0 when the walk is over.
RECURSIVE After(_)
After(d) ==
    IF d = 1 THEN 0
    ELSE IF d % 2 = 0 /\ d + 1 <= NumDirs THEN d + 1 ELSE After(d \div 2)

\* The entry that follows d when WalkDir reads directory d.
Descend(d) == IF 2 * d <= NumDirs THEN 2 * d ELSE After(d)

\* Histories of the repositories of the scanned tree.
HistNone == <<>>
HistAlice == <<Commit("alice", <<"fix x">>, TRUE, <<StatX1>>)>>
HistBob == <<Commit("bob", <<"add y", "details">>, TRUE, <<StatY2>>)>>
HistBin == <<Commit("alice", <<"logo">>, TRUE, <<StatBin>>)>>
\* Commits of the histories the log reduction is run on.
CommitX10 == Commit("alice", <<"rework x", "body">>, TRUE, <<StatX10>>)
CommitXY == Commit("alice", <<"touch x and y">>, TRUE, <<StatX1, StatY1>>)
CommitOld == Commit("bob", <<"old x">>, FALSE, <<StatX1>>)
CommitBobX == Commit("bob", <<"rework x">>, TRUE, <<StatX1>>)
CommitMove == Commit("bob", <<"move y">>, TRUE, <<StatNoPath, StatY2>>)
CommitBin == Commit("alice", <<"logo">>, TRUE, <<StatBin>>)

Commits == {CommitX10, CommitXY, CommitOld, CommitBobX, CommitMove, CommitBin, BrokenCommit("bob")}

RECURSIVE SeqsUpTo(_, _)
SeqsUpTo(S, n) ==
    IF n = 0 THEN {<<>>}
    ELSE LET shorter == SeqsUpTo(S, n - 1)
         IN  shorter \cup {Append(h, c) : h \in shorter, c \in S}

Histories == SeqsUpTo(Commits, MaxCommits)

\* The repositories the log reduction is run on.
ParseRepos ==
    {Repo(r, TRUE, h) : r \in PullResults, h \in Histories} \cup {Repo("ok", FALSE, HistNone)}

\* The repositories git.PlainOpen can return: histories with and without
\* changes, a repository whose log cannot be read and, with -pull, worktrees
\* whose pull fails or is already up to date.  Without -pull the worktree is
\* never pulled, and one pull result stands for all.
Repos(p) ==
    {Repo("ok", TRUE, h) : h \in {HistNone, HistAlice, HistBob, HistBin}}
        \cup {Repo("ok", FALSE, HistNone)}
        \cup (IF p THEN {Repo("uptodate", TRUE, HistAlice), Repo("err", TRUE, HistAlice)}
                   ELSE {})

\* What the walk finds at a path: a file, a directory that is no repository
\* root, a repository root, a directory git.PlainOpen fails on with another
\* error, or a path WalkDir reports with an error (a root that cannot be
\* stat'ed, a directory that cannot be read).
Entries(p) ==
    {[kind |-> k, repo |-> Repo("ok", TRUE, HistNone)] : k \in {"file", "dir", "openErr", "walkErr"}}
        \cup {[kind |-> "repo", repo |-> r] : r \in Repos(p)}

\* A visit that returns every error of git.PlainOpen.
visitAnyError(e) ==
    IF e.kind = "file" THEN [ret |-> "nil", send |-> FALSE]
    ELSE IF e.kind = "repo" THEN [ret |-> "SkipDir", send |-> TRUE]
    ELSE [ret |-> "err", send |-> FALSE]

\* visit, lines 339-365: what the callback returns for an entry, and whether
\* it sends a unit before returning.
visit(e) ==
    IF e.kind = "walkErr" THEN [ret |-> "err", send |-> FALSE]
    ELSE IF e.kind = "file" THEN [ret |-> "nil", send |-> FALSE]
    ELSE IF e.kind = "dir" THEN [ret |-> "nil", send |-> FALSE]
    ELSE IF e.kind = "openErr" THEN [ret |-> "err", send |-> FALSE]
    ELSE [ret |-> "SkipDir", send |-> TRUE]

\* ------------------------------------------------------------------ state

VARIABLES
    pull,          \* the -pull flag
    author,        \* the -author flag
    files,         \* the -files flag (first revision)
    msgs,          \* the -msgs flag (first revision)
    tree,          \* what the file system can hold at each path
    uniqArg,       \* a call of uniq on its own: its argument ss
    uniqResult,    \* the number of times uniq was applied, and what it returned
    cur,           \* the entry WalkDir is at; 0 once the walk is over
    dpc,           \* discovery goroutine: "walk", "send", "exit", "done"
    unit,          \* the directory value the discovery goroutine is sending
    inClosed,      \* close(in) has run
    outClosed,     \* close(out) has run
    wpc,           \* worker: "range", "send", "exit", "done"
    wdir,          \* the directory value a worker holds
    wg,            \* the WaitGroup counter
    mpc,           \* main, in the reporter: "range", "done"
    directories,   \* reportResults (table): the results kept
    totalChanges,  \* reportResults (table): the grand total
    table,         \* the rows of the table written at the end
    rows,          \* the rows the first revision's reporter has written
    warnings,      \* log.Printf lines written, by path
    fatalLines,    \* log.Fatal lines written
    exited,        \* os.Exit(1) has run
    emitted,       \* the directory values the discovery goroutine has put in a send
    received,      \* how often a worker received each path
    delivered      \* how often the reporter received each path

vars ==
    <<pull, author, files, msgs, tree, uniqArg, uniqResult, cur, dpc, unit, inClosed, outClosed, wpc, wdir, wg, mpc,
      directories, totalChanges, table, rows, warnings, fatalLines, exited,
      emitted, received, delivered>>

\* What no step of the pipeline changes: the flags, the file system, and
\* the argument and result of a call of uniq on its own.
config == <<pull, author, files, msgs, tree, uniqArg, uniqResult>>
reporter == <<directories, totalChanges, table, rows>>

NoDir == [path |-> 0, changes |-> 0, authors |-> <<>>, repo |-> Repo("ok", TRUE, HistNone), files |-> <<>>]

\* The directory value of lines 355-358.
NewDir(path, repo) ==
    [path |-> path, changes |-> 0, authors |-> <<>>, repo |-> repo, files |-> <<>>]

\* The -author values tried.
AuthorFlags == {"", "alice", "bob"}

\* main has started its goroutines (lines 327-400) and enters
\* reportResults: nothing is closed, received or written yet.
\* uniq is not called on its own.
NoCall ==
    /\ uniqArg = <<>>
    /\ uniqResult = [calls |-> 0, uniq |-> <<>>]

Started ==
    /\ inClosed = FALSE
    /\ outClosed = FALSE
    /\ wpc = [w \in Workers |-> "range"]
    /\ wdir = [w \in Workers |-> NoDir]
    /\ wg = NumWorkers + 1
    /\ mpc = "range"
    /\ directories = <<>>
    /\ totalChanges = 0
    /\ table = <<>>
    /\ rows = <<>>
    /\ warnings = [d \in Dirs |-> 0]
    /\ fatalLines = 0
    /\ exited = FALSE
    /\ received = [d \in Dirs |-> 0]
    /\ delivered = [d \in Dirs |-> 0]

\* The pipeline is run with and without -pull, with no -author filter (the
\* filter is exercised by InitParse below) and without -files and -msgs
\* (exercised by InitRank below); any entry can be at any path.
Init ==
    /\ pull \in BOOLEAN
    /\ author = ""
    /\ files = FALSE
    /\ msgs = FALSE
    /\ tree = [d \in Dirs |-> Entries(pull)]
    /\ cur = 1
    /\ dpc = "walk"
    /\ unit = NoDir
    /\ emitted = <<>>
    /\ Started
    /\ NoCall

\* The process runs until os.Exit or until main returns.
Running == ~exited /\ mpc # "done"

\* --------------------------------------------------- the discovery goroutine

\* One call of visit by WalkDir, lines 339-365, up to its return or to the
\* send of line 355.  An error returned by visit ends WalkDir, and line 368
\* writes it (log.Fatal writes the line, then calls os.Exit).
Visit(d) ==
    /\ Running
    /\ dpc = "walk"
    /\ cur = d
    /\ \E e \in tree[d] :
         LET v == visit(e)
         IN  IF v.send
             THEN /\ dpc' = "send"
                  /\ unit' = NewDir(d, e.repo)
                  /\ emitted' = Append(emitted, NewDir(d, e.repo))
                  /\ UNCHANGED <<cur, fatalLines>>
             ELSE IF v.ret = "err"
             THEN /\ dpc' = "exit"
                  /\ fatalLines' = fatalLines + 1
                  /\ UNCHANGED <<cur, unit, emitted>>
             ELSE /\ cur' = IF e.kind = "dir" THEN Descend(d) ELSE After(d)
                  /\ UNCHANGED <<dpc, unit, emitted, fatalLines>>
    /\ UNCHANGED <<config, inClosed, outClosed, wpc, wdir, wg, mpc, reporter,
                   warnings, exited, received, delivered>>

\* A discovery goroutine that ends without close(in).
DiscoverDoneNoClose ==
    /\ Running
    /\ dpc = "walk"
    /\ cur = 0
    /\ dpc' = "done"
    /\ wg' = wg - 1
    /\ UNCHANGED <<config, cur, unit, inClosed, outClosed, wpc, wdir, mpc, reporter,
                   warnings, fatalLines, exited, emitted, received, delivered>>

\* WalkDir returns nil: the deferred close(in) and wg.Done() run, lines
\* 336-337.
DiscoverDone ==
    /\ Running
    /\ dpc = "walk"
    /\ cur = 0
    /\ dpc' = "done"
    /\ inClosed' = TRUE
    /\ wg' = wg - 1
    /\ UNCHANGED <<config, cur, unit, outClosed, wpc, wdir, mpc, reporter,
                   warnings, fatalLines, exited, emitted, received, delivered>>

\* ---------------------------------------------------------------- a worker

\* A send that leaves the value with the sender, which sends it again.
SendAgain == UNCHANGED <<dpc, cur, unit>>

\* A visit that returns nil after its send: WalkDir reads the directory.
SendDescend ==
    /\ dpc' = "walk"
    /\ cur' = Descend(cur)
    /\ unit' = NoDir

\* The discovery goroutine's side of a completed send: the value is gone,
\* visit returns filepath.SkipDir (line 361) and WalkDir goes on after the
\* directory.
SendDone ==
    /\ dpc' = "walk"
    /\ cur' = After(cur)
    /\ unit' = NoDir

\* A worker that is at its receive also while its send is not yet taken.
AtReceiveOrSend(w) == wpc[w] \in {"range", "send"}

\* Worker w is at the receive of `for dir := range in`, line 377.
AtReceive(w) == wpc[w] = "range"

\* `in` is unbuffered: the send of line 355 and a worker's receive of line
\* 377 happen together; visit then returns filepath.SkipDir, line 361.  The
\* worker runs its loop body up to the send of line 392: parseRepoLogs and
\* what the worker makes of its result, lines 378-391.  log.Fatalf writes
\* its line, then calls os.Exit.
WorkerReceive(w) ==
    /\ Running
    /\ dpc = "send"
    /\ AtReceive(w)
    /\ received' = [received EXCEPT ![unit.path] = @ + 1]
    /\ SendDone
    /\ \E res \in parseRepoLogs(unit.repo, pull, author) :
         IF isFatal(res.err)
         THEN /\ fatalLines' = fatalLines + 1
              /\ wpc' = [wpc EXCEPT ![w] = "exit"]
              /\ wdir' = [wdir EXCEPT ![w] = unit]
              /\ UNCHANGED warnings
         ELSE /\ warnings' = IF res.err = "pullError"
                             THEN [warnings EXCEPT ![unit.path] = @ + 1]
                             ELSE warnings
              /\ wdir' = [wdir EXCEPT ![w] = workerBody(unit, res.files)]
              /\ wpc' = [wpc EXCEPT ![w] = "send"]
              /\ UNCHANGED fatalLines
    /\ UNCHANGED <<config, inClosed, outClosed, wg, mpc, reporter, exited,
                   emitted, delivered>>

\* `out` is unbuffered: the send of line 392 and the reporter's receive
\* (line 408; line 122 in the first revision) happen together, and the
\* reporter runs its loop body.
WorkerSend(w) ==
    /\ Running
    /\ wpc[w] = "send"
    /\ mpc = "range"
    /\ LET c == collect(wdir[w], totalChanges, directories)
       IN  /\ totalChanges' = c.totalChanges
           /\ directories' = c.directories
    /\ rows' = rows \o printRow(wdir[w], files, msgs)
    /\ delivered' = [delivered EXCEPT ![wdir[w].path] = @ + 1]
    /\ wpc' = [wpc EXCEPT ![w] = "range"]
    /\ wdir' = [wdir EXCEPT ![w] = NoDir]
    /\ UNCHANGED <<config, cur, dpc, unit, inClosed, outClosed, wg, mpc, table,
                   warnings, fatalLines, exited, emitted, received>>

\* `in` is closed: the range loop ends and the deferred wg.Done() runs,
\* line 376.
WorkerDone(w) ==
    /\ Running
    /\ AtReceive(w)
    /\ inClosed
    /\ wpc' = [wpc EXCEPT ![w] = "done"]
    /\ wg' = wg - 1
    /\ UNCHANGED <<config, cur, dpc, unit, inClosed, outClosed, wdir, mpc,
                   reporter, warnings, fatalLines, exited, emitted, received,
                   delivered>>

\* --------------------------------------------- the supervisor and the reporter

\* A supervisor that closes `out` without waiting.
SuperviseNoWait ==
    /\ Running
    /\ ~outClosed
    /\ outClosed' = TRUE
    /\ UNCHANGED <<config, cur, dpc, unit, inClosed, wpc, wdir, wg, mpc,
                   reporter, warnings, fatalLines, exited, emitted, received,
                   delivered>>

\* A supervisor that waits for the discovery goroutine only.
SuperviseAfterDiscovery ==
    /\ Running
    /\ dpc = "done"
    /\ ~outClosed
    /\ outClosed' = TRUE
    /\ UNCHANGED <<config, cur, dpc, unit, inClosed, wpc, wdir, wg, mpc,
                   reporter, warnings, fatalLines, exited, emitted, received,
                   delivered>>

\* wg.Wait() returns and close(out) runs, lines 397-400.
Supervise ==
    /\ Running
    /\ wg = 0
    /\ ~outClosed
    /\ outClosed' = TRUE
    /\ UNCHANGED <<config, cur, dpc, unit, inClosed, wpc, wdir, wg, mpc,
                   reporter, warnings, fatalLines, exited, emitted, received,
                   delivered>>

\* `out` is closed: the receive loop ends, the table is written (lines
\* 416-427) and main returns.
Report ==
    /\ Running
    /\ mpc = "range"
    /\ outClosed
    /\ table' = RenderTable(directories, totalChanges)
    /\ mpc' = "done"
    /\ UNCHANGED <<config, cur, dpc, unit, inClosed, outClosed, wpc, wdir, wg,
                   directories, totalChanges, rows, warnings, fatalLines,
                   exited, emitted, received, delivered>>

\* os.Exit(1), the second half of log.Fatal (line 368) and log.Fatalf
\* (line 384): the process ends, whatever the other goroutines are doing.
Exit ==
    /\ Running
    /\ dpc = "exit" \/ \E w \in Workers : wpc[w] = "exit"
    /\ exited' = TRUE
    /\ UNCHANGED <<config, cur, dpc, unit, inClosed, outClosed, wpc, wdir, wg,
                   mpc, reporter, warnings, fatalLines, emitted, received,
                   delivered>>

Next ==
    \/ \E d \in Dirs : Visit(d)
    \/ DiscoverDone
    \/ \E w \in Workers : WorkerReceive(w)
    \/ \E w \in Workers : WorkerSend(w)
    \/ \E w \in Workers : WorkerDone(w)
    \/ Supervise
    \/ Report
    \/ Exit

Spec == Init /\ [][Next]_vars

\* The log reduction on its own: the walk has found a repository at the
\* root and is in the send of line 355; a worker receives the unit and
\* reduces its log under each setting of -pull and -author.
InitParse ==
    /\ pull \in BOOLEAN
    /\ author \in AuthorFlags
    /\ files = FALSE
    /\ msgs = FALSE
    /\ tree = [d \in Dirs |-> Entries(pull)]
    /\ cur = 1
    /\ dpc = "send"
    /\ \E r \in ParseRepos :
         /\ unit = NewDir(1, r)
         /\ emitted = <<NewDir(1, r)>>
    /\ Started
    /\ NoCall

SpecParse == InitParse /\ [][WorkerReceive(1)]_vars

\* The strings uniq is called on.
Names == {"alice", "bob", "carol"}

\* uniq called on its own: every sequence of names up to MaxLen; the
\* pipeline takes no step.
InitUniq ==
    /\ pull = FALSE
    /\ author = ""
    /\ files = FALSE
    /\ msgs = FALSE
    /\ tree = [d \in Dirs |-> Entries(pull)]
    /\ cur = 1
    /\ dpc = "walk"
    /\ unit = NoDir
    /\ emitted = <<>>
    /\ Started
    /\ uniqArg \in SeqsUpTo(Names, MaxLen)
    /\ uniqResult = [calls |-> 0, uniq |-> <<>>]

\* uniq(ss), lines 525-535, applied to the argument, and then to what it
\* returned.
Uniq ==
    /\ uniqResult.calls < 2
    /\ uniqResult' = [calls |-> uniqResult.calls + 1,
                      uniq |-> uniq(IF uniqResult.calls = 0 THEN uniqArg ELSE uniqResult.uniq)]
    /\ UNCHANGED <<pull, author, files, msgs, tree, uniqArg, cur, dpc, unit, inClosed,
                   outClosed, wpc, wdir, wg, mpc, reporter, warnings, fatalLines,
                   exited, emitted, received, delivered>>

SpecUniq == InitUniq /\ [][Uniq]_vars

\* What the walk finds at a path of a given tree: a file, a directory that is
\* no repository root, a repository root, or a path that fails.
WalkEntries ==
    {[kind |-> k, repo |-> Repo("ok", TRUE, HistNone)] : k \in {"file", "dir", "openErr", "walkErr"}}
        \cup {[kind |-> "repo", repo |-> Repo("ok", TRUE, HistAlice)]}

\* The pipeline started on a given tree: what is at every path is fixed
\* before the walk.
InitWalk ==
    /\ pull = FALSE
    /\ author = ""
    /\ files = FALSE
    /\ msgs = FALSE
    /\ tree \in [Dirs -> {{e} : e \in WalkEntries}]
    /\ cur = 1
    /\ dpc = "walk"
    /\ unit = NoDir
    /\ emitted = <<>>
    /\ Started
    /\ NoCall

SpecWalk == InitWalk /\ [][Next]_vars

\* The pipeline with a pool of any size up to NumWorkers: the workers
\* beyond the pool are never started.
InitPool ==
    /\ pull \in BOOLEAN
    /\ author = ""
    /\ files = FALSE
    /\ msgs = FALSE
    /\ tree = [d \in Dirs |-> Entries(pull)]
    /\ cur = 1
    /\ dpc = "walk"
    /\ unit = NoDir
    /\ emitted = <<>>
    /\ inClosed = FALSE
    /\ outClosed = FALSE
    /\ \E k \in 1..NumWorkers :
         /\ wpc = [w \in Workers |-> IF w <= k THEN "range" ELSE "none"]
         /\ wg = k + 1
    /\ wdir = [w \in Workers |-> NoDir]
    /\ mpc = "range"
    /\ directories = <<>>
    /\ totalChanges = 0
    /\ table = <<>>
    /\ rows = <<>>
    /\ warnings = [d \in Dirs |-> 0]
    /\ fatalLines = 0
    /\ exited = FALSE
    /\ received = [d \in Dirs |-> 0]
    /\ delivered = [d \in Dirs |-> 0]
    /\ NoCall

SpecPool == InitPool /\ [][Next]_vars

FairWalk == SpecWalk /\ WF_vars(Next)

\* Repositories whose results differ in their totals and in the counts of
\* their files: x.txt 2; x.txt 2 and y.txt 3; x.txt 2 and y.txt 2.
RankRepos ==
    {Repo("ok", TRUE, h) : h \in {HistAlice, <<CommitBobX, CommitMove>>, <<CommitXY>>}}

\* What the walk finds at a path of the ranked runs.
RankEntries ==
    {[kind |-> k, repo |-> Repo("ok", TRUE, HistNone)] : k \in {"dir", "walkErr"}}
        \cup {[kind |-> "repo", repo |-> r] : r \in RankRepos}

\* The pipeline started on a directory that is no repository, over
\* repositories of several files, with and without -files and -msgs.
InitRank ==
    /\ pull = FALSE
    /\ author = ""
    /\ files \in BOOLEAN
    /\ msgs \in BOOLEAN
    /\ tree = [d \in Dirs |-> IF d = 1 THEN {[kind |-> "dir", repo |-> Repo("ok", TRUE, HistNone)]}
                                       ELSE RankEntries]
    /\ cur = 1
    /\ dpc = "walk"
    /\ unit = NoDir
    /\ emitted = <<>>
    /\ Started
    /\ NoCall

SpecRank == InitRank /\ [][Next]_vars

\* The Go scheduler runs a goroutine that can run: some enabled step is
\* eventually taken.
FairSpec == Spec /\ WF_vars(Next)

\* ------------------------------------------------------------ properties

Range(s) == {s[i] : i \in DOMAIN s}

\* A worker holds a unit from its receive to its send (or to os.Exit).
Holding(w) == wpc[w] \in {"send", "exit"}

Holders(d) == {w \in Workers : Holding(w) /\ wdir[w].path = d}

EmittedAt(d) == {i \in DOMAIN emitted : emitted[i].path = d}

\* The pull of this repository fails in this run.
PullFails(repo) == pull /\ repo.pullRes = "err"

\* C1: every unit the discovery goroutine sends is received by exactly one
\* worker: a path is put in a send at most once; it has been received once,
\* or not yet while the discovery goroutine is still in that send; a
\* received unit is held by exactly one worker until it is delivered; and no
\* two workers hold the same unit.
C1_ExactlyOneWorker ==
    /\ \A d \in Dirs : Cardinality(EmittedAt(d)) <= 1
    /\ \A i \in DOMAIN emitted :
         received[emitted[i].path] = IF dpc = "send" /\ i = Len(emitted) THEN 0 ELSE 1
    /\ \A d \in Dirs : EmittedAt(d) = {} => received[d] = 0
    /\ \A d \in Dirs : Cardinality(Holders(d)) + delivered[d] = received[d]
    /\ \A w1, w2 \in Workers :
         (w1 # w2 /\ Holding(w1) /\ Holding(w2)) => wdir[w1].path # wdir[w2].path

\* Two workers hold units while the discovery goroutine is sending a third.
C1_Witness ==
    /\ dpc = "send"
    /\ \E w1, w2 \in Workers : w1 # w2 /\ wpc[w1] = "send" /\ wpc[w2] = "send"

\* C2: `out` is closed only when the discovery goroutine and all workers
\* have finished, and when the reporter's loop has ended (no fatal error
\* then) it has received exactly one result for every unit emitted.
C2_ClosedAfterAllDone ==
    /\ outClosed => (dpc = "done" /\ \A w \in Workers : wpc[w] = "done")
    /\ mpc = "done" =>
         /\ fatalLines = 0
         /\ \A d \in Dirs : delivered[d] = Cardinality(EmittedAt(d))

\* The reporter's loop has ended after three units.
C2_Witness == mpc = "done" /\ Len(emitted) = 3

\* C3: under fair scheduling the run ends: main returns from reportResults
\* with the table written, or (after a fatal error) os.Exit has run.
C3_Terminates == <>(mpc = "done" \/ (exited /\ fatalLines > 0))

\* A run without a fatal error has ended: both channels closed, all
\* goroutines done, the table with a row written.
C3_Witness ==
    /\ mpc = "done" /\ inClosed /\ outClosed /\ fatalLines = 0
    /\ dpc = "done" /\ \A w \in Workers : wpc[w] = "done"
    /\ Len(emitted) >= 2 /\ Len(table) >= 1

\* The repository has history that qualifies: its log, read without a pull,
\* yields file records.
HasLocalHistory(repo) ==
    \E res \in parseRepoLogs(repo, FALSE, author) : res.err = "nil" /\ res.files # <<>>

\* C4: with -pull, a repository whose pull fails and that has qualifying
\* local history gets a warning and a row in the report.
C4_PullFailureStillReported ==
    mpc = "done" =>
        \A i \in DOMAIN emitted :
            (PullFails(emitted[i].repo) /\ HasLocalHistory(emitted[i].repo)) =>
                /\ warnings[emitted[i].path] = 1
                /\ \E j \in DOMAIN table : table[j].path = emitted[i].path

\* C5: a pull failure stays with its repository: it writes exactly one
\* warning for that path and none for any other, it is never fatal, the
\* worker holds a result to send and leaves its loop only when `in` is
\* closed, every result held or kept is what parseRepoLogs gives for its
\* own repository, and at the end every unit's result has been delivered.
C5_PullFailureIsolated ==
    /\ \A i \in DOMAIN emitted :
         warnings[emitted[i].path] =
            IF PullFails(emitted[i].repo) /\ received[emitted[i].path] = 1 THEN 1 ELSE 0
    /\ \A d \in Dirs : EmittedAt(d) = {} => warnings[d] = 0
    /\ \A w \in Workers :
         (Holding(w) /\ PullFails(wdir[w].repo)) => (wpc[w] = "send" /\ wdir[w].files = <<>>)
    /\ \A w \in Workers : wpc[w] = "done" => inClosed
    /\ \A w \in Workers :
         wpc[w] = "send" =>
            \E res \in parseRepoLogs(wdir[w].repo, pull, author) : wdir[w].files = res.files
    /\ \A i \in DOMAIN directories :
         \E res \in parseRepoLogs(directories[i].repo, pull, author) :
            res.err = "nil" /\ directories[i].files = res.files
    /\ mpc = "done" => \A i \in DOMAIN emitted : delivered[emitted[i].path] = 1

\* A run has ended in which the pulls of the first two repositories failed,
\* their results were delivered, and the third repository, taken by a
\* worker after that, has its row.
C5_Witness ==
    /\ mpc = "done"
    /\ Len(emitted) = 3
    /\ \A i \in 1..2 :
         /\ PullFails(emitted[i].repo)
         /\ warnings[emitted[i].path] = 1 /\ delivered[emitted[i].path] = 1
    /\ \E j \in DOMAIN table : table[j].path = emitted[3].path

\* C6: once a fatal line is written there is exactly one, and nothing of a
\* report is written: no row by the first revision's reporter, no table.
C6_FatalOneLineNoReport ==
    fatalLines > 0 => (fatalLines = 1 /\ rows = <<>> /\ table = <<>> /\ mpc # "done")

\* C7: no row of a report has a total change count of zero.
C7_NoZeroChangeRow ==
    /\ \A i \in DOMAIN table : table[i].changes # 0
    /\ \A i \in DOMAIN rows : rows[i].changes # 0

RECURSIVE SumOf(_, _)
SumOf(s, S) ==
    IF S = {} THEN 0
    ELSE LET i == CHOOSE x \in S : TRUE
         IN  s[i].changes + SumOf(s, S \ {i})

\* C8: when the reporter's loop has ended, the grand total is the sum of
\* the totals of the rows of the table, the rows are the repositories kept,
\* and each kept repository's total is the sum of its files' change counts.
C8_Conservation ==
    mpc = "done" =>
        /\ totalChanges = SumOf(table, DOMAIN table)
        /\ Len(table) = Len(directories)
        /\ \A i \in DOMAIN directories :
             /\ directories[i].changes = SumOf(directories[i].files, DOMAIN directories[i].files)
             /\ \E j \in DOMAIN table :
                  /\ table[j].path = directories[i].path
                  /\ table[j].changes = directories[i].changes

\* The table has two rows with totals that differ, and a result was
\* dropped.
C8_Witness ==
    /\ mpc = "done" /\ Len(table) = 2 /\ Len(emitted) = 3
    /\ table[1].changes # table[2].changes

\* The stat entries of history h that count under filter a: commit i is in
\* the window and by the author asked for, entry j of its stats.
Counted(h, a) ==
    UNION {{<<i, j>> : j \in DOMAIN h[i].Stats} :
             i \in {c \in DOMAIN h : h[c].InWindow /\ (a = "" \/ h[c].Author = a)}}

CountedFor(h, a, f) == {p \in Counted(h, a) : h[p[1]].Stats[p[2]].Name = f}

RECURSIVE LinesOf(_, _)
LinesOf(h, P) ==
    IF P = {} THEN 0
    ELSE LET p == CHOOSE x \in P : TRUE
             st == h[p[1]].Stats[p[2]]
         IN  st.Addition + st.Deletion + LinesOf(h, P \ {p})

\* C9: every file record the log reduction produces has a non-empty path
\* with a counted entry, its change count is the sum of added + deleted over
\* the counted entries of that path, its authors and messages are those of
\* the commits of these entries, and every path with a counted entry has
\* exactly one record: filtered commits, commits outside the window and
\* entries without a path add nothing.
C9_ChangeCounts ==
    \A w \in Workers :
        (wpc[w] = "send" /\ ~PullFails(wdir[w].repo)) =>
            LET fs == wdir[w].files
                h == wdir[w].repo.history
            IN  /\ {fs[k].path : k \in DOMAIN fs} =
                     {h[p[1]].Stats[p[2]].Name : p \in Counted(h, author)} \ {""}
                /\ \A k1, k2 \in DOMAIN fs : fs[k1].path = fs[k2].path => k1 = k2
                /\ \A k \in DOMAIN fs :
                     LET P == CountedFor(h, author, fs[k].path)
                     IN  /\ fs[k].changes = LinesOf(h, P)
                         /\ Range(fs[k].authors) = {h[p[1]].Author : p \in P}
                         /\ Range(fs[k].messages) = {h[p[1]].Message[1] : p \in P}

\* With -author bob, a history of alice's commit, bob's commit with an
\* entry without a path, and bob's commit on x.txt is reduced to y.txt: 3
\* and x.txt: 2.
C9_Witness ==
    /\ author = "bob"
    /\ wpc[1] = "send"
    /\ wdir[1].repo.history = <<CommitX10, CommitMove, CommitBobX>>
    /\ Len(wdir[1].files) = 2
    /\ \E k \in DOMAIN wdir[1].files :
         wdir[1].files[k].path = "y.txt" /\ wdir[1].files[k].changes = 3

\* The orders in which the kept results can have arrived.
Arrivals(dirs) ==
    {[i \in DOMAIN dirs |-> dirs[f[i]]] : f \in Permutations(DOMAIN dirs)}

\* C10: the table written is the table of every arrival order of the same
\* results.
C10_Deterministic ==
    (mpc = "done" /\ Len(directories) >= 2) =>
        \A other \in Arrivals(directories) : RenderTable(other, totalChanges) = table

\* The change counts of a sequence of rows never increase.
NonIncreasing(s) == \A i \in 1..(Len(s) - 1) : s[i].changes >= s[i + 1].changes

\* C11: the rows of the table are in non-increasing order of the total of
\* their repository, whatever order the results arrived in; and the files
\* written under a row with -files are in non-increasing order of their
\* change count.
C11_Ranked ==
    /\ NonIncreasing(table)
    /\ \A r \in DOMAIN rows : NonIncreasing(rows[r].lines)

\* Two results arrived smaller total first, the table is written, and the
\* files of a result came out of the map smaller count first.
C11_Witness ==
    /\ mpc = "done"
    /\ Len(table) >= 2
    /\ directories[1].changes < directories[2].changes
    /\ \E k \in DOMAIN directories :
         /\ Len(directories[k].files) = 2
         /\ directories[k].files[1].changes < directories[k].files[2].changes
         /\ \E r \in DOMAIN rows : rows[r].path = directories[k].path /\ Len(rows[r].lines) = 2

\* The index of the first occurrence of x in s.
First(s, x) == CHOOSE i \in DOMAIN s : s[i] = x /\ \A k \in 1..(i - 1) : s[k] # x

\* No element of s is repeated.
NoRepeat(s) == \A i, j \in DOMAIN s : s[i] = s[j] => i = j

\* C12: what uniq returns has the elements of its argument, none repeated,
\* in the order of their first occurrence in the argument; applied to what
\* it returned it returns the same.
C12_Uniq ==
    uniqResult.calls >= 1 =>
        LET u == uniqResult.uniq
        IN  /\ Range(u) = Range(uniqArg)
            /\ NoRepeat(u)
            /\ \A i, j \in DOMAIN u : i < j => First(uniqArg, u[i]) < First(uniqArg, u[j])

\* uniq was applied twice to an argument that repeats a name after another
\* name came in between.
C12_Witness ==
    /\ uniqResult.calls = 2
    /\ Len(uniqArg) = 4
    /\ uniqArg[1] = uniqArg[3]
    /\ uniqArg[1] # uniqArg[2]
    /\ Len(uniqResult.uniq) = 3

\* The directories above d in the tree.
Ancestors(d) == {a \in Dirs : \E k \in 1..NumDirs : a = d \div (2 ^ k)}

\* What is at d in a given tree.
Kind(d) == (CHOOSE e \in tree[d] : TRUE).kind

\* A path is in the tree when everything above it is a directory.
InTree(d) == \A a \in Ancestors(d) : Kind(a) # "file"

\* The repository roots that are inside no other repository root.
Outermost == {d \in Dirs : InTree(d) /\ Kind(d) = "repo" /\ \A a \in Ancestors(d) : Kind(a) # "repo"}

\* C13: the discovery goroutine emits a unit only for a repository root
\* that is inside no other repository root, never two for one root, and
\* when the walk has ended it has emitted one for each of them (the scanned
\* root included): directories that are no repository roots were read.
C13_OutermostRoots ==
    /\ \A i \in DOMAIN emitted : emitted[i].path \in Outermost
    /\ \A i, j \in DOMAIN emitted : emitted[i].path = emitted[j].path => i = j
    /\ dpc = "done" => {emitted[i].path : i \in DOMAIN emitted} = Outermost

\* The walk has ended on a tree whose root is no repository and holds two
\* repository roots, one of them with a repository root inside it.
C13_Witness ==
    /\ dpc = "done"
    /\ Kind(1) = "dir"
    /\ Kind(2) = "repo"
    /\ Kind(4) = "repo"
    /\ Kind(3) = "repo"
    /\ Len(emitted) = 2

\* Worker w holds the result of the scenario's repository: alice's commits
\* on x.txt (+10/-2) and on x.txt (+1/-1) and y.txt (+1/-1) in the window,
\* bob's commit on x.txt outside it, in any order of the log; no -author.
ScenarioA(w) ==
    /\ wpc[w] = "send"
    /\ author = ""
    /\ ~PullFails(wdir[w].repo)
    /\ Len(wdir[w].repo.history) = 3
    /\ Range(wdir[w].repo.history) = {CommitX10, CommitXY, CommitOld}

\* The file aggregates of a result, without their messages.
Aggregates(dir) ==
    {[path |-> dir.files[k].path, changes |-> dir.files[k].changes,
      authors |-> dir.files[k].authors] : k \in DOMAIN dir.files}

\* C14 as stated: the scenario's repository is reduced to a total of 14,
\* x.txt {changes: 12, authors: [alice]} and y.txt {changes: 2, authors:
\* [alice]}.
C14_ScenarioAsStated ==
    \A w \in Workers :
        ScenarioA(w) =>
            /\ wdir[w].changes = 14
            /\ Aggregates(wdir[w]) =
                 {[path |-> "x.txt", changes |-> 12, authors |-> <<"alice">>],
                  [path |-> "y.txt", changes |-> 2, authors |-> <<"alice">>]}

\* C14, amended: the scenario's repository is reduced to a total of 16,
\* x.txt {changes: 14, authors: [alice]} (12 of commit 1 and 2 of commit 2)
\* and y.txt {changes: 2, authors: [alice]}; bob's commit outside the
\* window adds nothing.
C14_ScenarioA ==
    \A w \in Workers :
        ScenarioA(w) =>
            /\ wdir[w].changes = 16
            /\ Len(wdir[w].files) = 2
            /\ Aggregates(wdir[w]) =
                 {[path |-> "x.txt", changes |-> 14, authors |-> <<"alice">>],
                  [path |-> "y.txt", changes |-> 2, authors |-> <<"alice">>]}
            /\ uniq(wdir[w].authors) = <<"alice">>

\* The scenario's log, newest commit first, has been reduced.
C14_Witness ==
    /\ ScenarioA(1)
    /\ wdir[1].repo.history = <<CommitXY, CommitX10, CommitOld>>
    /\ wdir[1].changes = 16

\* C15: the grand total is not zero when a row is written, and the
\* percentage of every row is a whole number nearest to 100 times the total
\* of its repository over the grand total.
C15_PercentOfTotal ==
    \A i \in DOMAIN table :
        /\ totalChanges # 0
        /\ table[i].percent \in 0..100
        /\ LET d == 100 * table[i].changes - table[i].percent * totalChanges
           IN  2 * d <= totalChanges /\ -2 * d <= totalChanges

\* C16: with -pull, a repository whose pull reports that it is already up
\* to date gets no warning, and the worker makes of it what it makes of the
\* same repository when the pull succeeds: the same files, or the same
\* fatal error.
C16_UpToDateIsSuccess ==
    \A w \in Workers :
        (pull /\ Holding(w) /\ wdir[w].repo.pullRes = "uptodate") =>
            LET pulled == parseRepoLogs([wdir[w].repo EXCEPT !.pullRes = "ok"], pull, author)
            IN  /\ warnings[wdir[w].path] = 0
                /\ wpc[w] = "send" => \E r \in pulled : r.err = "nil" /\ r.files = wdir[w].files
                /\ wpc[w] = "exit" => \E r \in pulled : isFatal(r.err)

\* With -pull, a worker has reduced a repository that was already up to
\* date to two files.
C16_Witness ==
    /\ pull
    /\ wpc[1] = "send"
    /\ wdir[1].repo.pullRes = "uptodate"
    /\ Len(wdir[1].files) = 2
    /\ wdir[1].changes > 0

\* The walk is at a path of the given kinds and takes its step there.
VisitsKind(kinds) ==
    /\ dpc = "walk"
    /\ cur \in Dirs
    /\ Kind(cur) \in kinds
    /\ <<cur, dpc>>' # <<cur, dpc>>

\* A directory that is no repository is passed without a line logged and
\* without a unit, and the walk goes on to what follows it when WalkDir
\* reads it (its first child when it has one).
SkippedSilently ==
    VisitsKind({"dir"}) =>
        /\ cur' = (IF 2 * cur <= NumDirs THEN 2 * cur ELSE After(cur))
        /\ dpc' = "walk"
        /\ UNCHANGED <<emitted, unit, fatalLines, warnings, rows, table>>

\* Any other error ends the walk in log.Fatal, and no unit is emitted from
\* then on; main never returns, so the run can only end in os.Exit(1).
FatalOtherwise ==
    /\ VisitsKind({"openErr", "walkErr"}) =>
          dpc' = "exit" /\ fatalLines' = fatalLines + 1 /\ emitted' = emitted
    /\ dpc = "exit" =>
          dpc' = "exit" /\ emitted' = emitted /\ unit' = unit /\ mpc' # "done"

\* C17: a directory that git.PlainOpen reports as no repository is skipped
\* silently and the walk goes on into it; any other error of
\* git.PlainOpen or of the walk is fatal: no unit is emitted after it, and
\* the run ends in os.Exit(1).
C17_DiscoveryErrors ==
    /\ [][SkippedSilently /\ FatalOtherwise]_vars
    /\ (dpc = "exit") ~> exited

\* The walk went into a directory that is no repository, emitted a
\* repository root under it, failed on the next path, and the process
\* exited.
C17_Witness ==
    /\ Kind(1) = "dir"
    /\ Kind(2) = "repo"
    /\ Kind(3) = "openErr"
    /\ Len(emitted) = 1
    /\ dpc = "exit"
    /\ exited

\* The workers of the pool.
Pool == {w \in Workers : wpc[w] # "none"}

RECURSIVE Total(_, _)
Total(f, S) ==
    IF S = {} THEN 0
    ELSE LET i == CHOOSE x \in S : TRUE
         IN  f[i] + Total(f, S \ {i})

\* The units emitted whose result the reporter has not received.
Pending == Len(emitted) - Total(delivered, Dirs)

\* C18: the units emitted whose result the reporter has not yet received
\* are at most one more than the workers of the pool.
C18_Backpressure == Pending <= Cardinality(Pool) + 1

\* With a pool of one worker and a first result received by the reporter,
\* the worker holds the second unit and the discovery goroutine is in the
\* send of the third.
C18_Witness ==
    /\ Cardinality(Pool) = 1
    /\ Len(emitted) = 3
    /\ dpc = "send"
    /\ Holding(1)
    /\ Pending = 2

\* A send on `in` begins when a unit is emitted and ends when it is
\* received; a send on `out` is the step that delivers a result.
SendsOnOpenQueues ==
    /\ (emitted' # emitted \/ received' # received) => ~inClosed /\ ~inClosed'
    /\ delivered' # delivered => ~outClosed /\ ~outClosed'

\* `in` is closed by the step in which the discovery goroutine returns,
\* which it does once; `out` is closed when wg.Wait() has returned, with
\* every worker past its loop; a closed queue stays closed.
ClosedOnce ==
    /\ inClosed' # inClosed => ~inClosed /\ dpc = "walk" /\ cur = 0 /\ dpc' = "done"
    /\ dpc = "done" => dpc' = "done"
    /\ outClosed' # outClosed =>
          ~outClosed /\ wg = 0 /\ inClosed /\ \A w \in Workers : wpc[w] = "done"
    /\ \A w \in Workers : wpc[w] = "done" => wpc'[w] = "done"

\* C19: no send is made on a closed queue and each queue is closed once at
\* most: `in` by the discovery goroutine after its last send, `out` by the
\* supervisor after the last send of every worker.
C19_CloseDiscipline ==
    /\ [](inClosed => dpc = "done" /\ unit = NoDir)
    /\ [](outClosed => \A w \in Workers : ~Holding(w))
    /\ [][SendsOnOpenQueues /\ ClosedOnce]_vars

\* Both queues are closed after two units went through each of them, and
\* the table is not yet written.
C19_Witness ==
    /\ inClosed
    /\ outClosed
    /\ mpc = "range"
    /\ Total(received, Dirs) = 2
    /\ Total(delivered, Dirs) = 2

\* The authors of the counted entries P of history h, in the order of the
\* log.
RECURSIVE AuthorsOf(_, _, _)
AuthorsOf(h, P, i) ==
    IF i > Len(h) THEN <<>>
    ELSE [k \in 1..Cardinality({p \in P : p[1] = i}) |-> h[i].Author] \o AuthorsOf(h, P, i + 1)

\* C20: every file record of a worker's result has a path that is not
\* empty, no two have the same path, and each has a list of authors that
\* is not empty and repeats no name; an entry without a path makes no file
\* record, though its author and message are appended to the maps of
\* authors and messages under the empty path.
C20_FileAggregates ==
    \A w \in Workers :
        (wpc[w] = "send" /\ ~PullFails(wdir[w].repo)) =>
            LET fs == wdir[w].files
                h == wdir[w].repo.history
                maps == ForEach(Log(h), author, EmptyMaps)
                nopath == CountedFor(h, author, "")
            IN  /\ \A k \in DOMAIN fs :
                     /\ fs[k].path # ""
                     /\ fs[k].authors # <<>>
                     /\ NoRepeat(fs[k].authors)
                /\ \A k1, k2 \in DOMAIN fs : fs[k1].path = fs[k2].path => k1 = k2
                /\ "" \notin DOMAIN maps.changesPerFile
                /\ nopath # {} =>
                     /\ maps.authorsPerFile[""] = AuthorsOf(h, nopath, 1)
                     /\ Len(maps.msgsPerFile[""]) = Cardinality(nopath)

\* A log of bob's commit with an entry without a path, twice, and alice's
\* commit on x.txt and y.txt has been reduced to two file records.
C20_Witness ==
    /\ wpc[1] = "send"
    /\ author = ""
    /\ wdir[1].repo.history = <<CommitMove, CommitXY, CommitMove>>
    /\ Len(wdir[1].files) = 2
    /\ \E k \in DOMAIN wdir[1].files : wdir[1].files[k].authors = <<"bob", "alice">>

====
